---- MODULE Spec2Model ----
(***************************************************************************)
(* Model of scripts/import_images.py: the import pipeline that walks a     *)
(* directory tree, builds a frame of JPEG rows, aligns its columns to the  *)
(* destination table and upserts the rows.                                 *)
(*                                                                         *)
(* Strings are sequences of pieces (a piece is a run of characters that    *)
(* the program never splits: "photo1", ".", "jpg", "/").  An optional      *)
(* value (None or a value) is the empty sequence or a one-element one.     *)
(***************************************************************************)
EXTENDS Integers, Sequences, FiniteSets, TLC

\* Number of import runs in one behaviour.
MaxRuns == 2
\* Number of changes made to files on disk between the runs.
MaxTouches == 1

-----------------------------------------------------------------------------
(* Strings *)

None == <<>>
Some(v) == <<v>>

Range(s) == {s[i] : i \in 1..Len(s)}

\* str.lower(), piece by piece.
Lower(c) ==
  CASE c = "P" -> "p"
    [] c = "JPG" -> "jpg"
    [] c = "X" -> "x"
    [] c = "YES" -> "yes"
    [] c = "True" -> "true"
    [] OTHER -> c

LowerStr(s) == [i \in 1..Len(s) |-> Lower(s[i])]

\* str.endswith(suffix)
EndsWith(s, suf) ==
  /\ Len(s) >= Len(suf)
  /\ SubSeq(s, Len(s) - Len(suf) + 1, Len(s)) = suf

\* str.startswith(prefix); also SQL  s LIKE 'prefix%'
StartsWith(s, pre) ==
  /\ Len(s) >= Len(pre)
  /\ SubSeq(s, 1, Len(pre)) = pre

\* (variant: the allow-list widened by .png)
ALLOWED_EXTENSIONS_AND_PNG == {<<".", "jpg">>, <<".", "jpeg">>, <<".", "png">>}
ALLOWED_EXTENSIONS == {<<".", "jpg">>, <<".", "jpeg">>}

\* s.lower().endswith(ALLOWED_EXTENSIONS)
EndsWithAllowed(s) == \E e \in ALLOWED_EXTENSIONS : EndsWith(LowerStr(s), e)

\* str.strip(): drop leading and trailing blanks.
RECURSIVE LStrip(_)
LStrip(s) == IF s # <<>> /\ Head(s) = " " THEN LStrip(Tail(s)) ELSE s
RECURSIVE RStrip(_)
RStrip(s) ==
  IF s # <<>> /\ s[Len(s)] = " " THEN RStrip(SubSeq(s, 1, Len(s) - 1)) ELSE s
Strip(s) == RStrip(LStrip(s))

\* Python truthiness of an optional string, and  a or b.
Truthy(opt) == opt # None /\ opt[1] # <<>>
Or(a, b) == IF Truthy(a) THEN a ELSE b

TrueWords == {<<"1">>, <<"true">>, <<"yes">>, <<"y">>, <<"on">>}

parse_bool(value, default) ==
  IF value = None THEN default
  ELSE LowerStr(Strip(value[1])) \in TrueWords

-----------------------------------------------------------------------------
(* parse_thumbnail_size *)

DEFAULT_THUMBNAIL_SIZE == <<256, 256>>

\* raw.lower().replace("x", ",")
Normalize(raw) ==
  [i \in 1..Len(raw) |-> IF Lower(raw[i]) = "x" THEN "," ELSE Lower(raw[i])]

\* str.split(","): the pieces between the commas, empty ones included.
RECURSIVE SplitComma(_, _)
SplitComma(s, cur) ==
  IF s = <<>> THEN <<cur>>
  ELSE IF Head(s) = "," THEN <<cur>> \o SplitComma(Tail(s), <<>>)
  ELSE SplitComma(Tail(s), Append(cur, Head(s)))

NonEmpty(p) == p # <<>>

\* The decimal literals the inputs use.
IntLiterals == {"512", "256", "12", "34"}
IntOf(p) ==
  CASE p = "512" -> 512
    [] p = "256" -> 256
    [] p = "12" -> 12
    [] p = "34" -> 34

\* int(part) succeeds
IsInt(part) == Len(part) = 1 /\ part[1] \in IntLiterals

\* Result: [ok, size, err]
parse_thumbnail_size(raw) ==
  IF ~Truthy(raw)
  THEN [ok |-> TRUE, size |-> DEFAULT_THUMBNAIL_SIZE, err |-> "none"]
  ELSE
    LET parts == SelectSeq(SplitComma(Normalize(raw[1]), <<>>), NonEmpty)
    IN IF Len(parts) # 2
       THEN [ok |-> FALSE, size |-> <<0, 0>>, err |-> "thumbnail_shape"]
       ELSE IF IsInt(parts[1]) /\ IsInt(parts[2])
       THEN [ok |-> TRUE, size |-> <<IntOf(parts[1][1]), IntOf(parts[2][1])>>,
             err |-> "none"]
       ELSE [ok |-> FALSE, size |-> <<0, 0>>, err |-> "thumbnail_int"]

-----------------------------------------------------------------------------
(* load_config *)

\* One invocation: the CLI arguments (args) and the environment (env).
\* Optional strings are optional piece sequences.
BaseInvocation ==
  [directory |-> <<"/", "r">>,
   args |-> [database_url |-> None, table |-> None, schema |-> None,
             conflict |-> None, no_thumbnails |-> FALSE,
             thumbnail_size |-> None, skip_existing_dirs |-> FALSE],
   env |-> [LANDLENS_DATABASE_URL |-> Some(<<"pg">>),
            LANDLENS_TABLE |-> Some(<<"images">>),
            LANDLENS_TABLE_SCHEMA |-> None,
            LANDLENS_ON_CONFLICT |-> None,
            LANDLENS_CREATE_THUMBNAILS |-> None,
            LANDLENS_THUMBNAIL_SIZE |-> None,
            LANDLENS_SKIP_EXISTING_DIRS |-> None]]

\* os.getenv(name, default)
Getenv(env, name, default) == IF env[name] = None THEN default ELSE env[name]

NoConfig ==
  [database_url |-> <<>>, table_name |-> <<>>, table_schema |-> None,
   conflict |-> <<>>, create_thumbnails |-> FALSE, thumbnail_size |-> <<0, 0>>,
   skip_existing_dirs |-> FALSE]

ConfigError(e, miss) == [ok |-> FALSE, err |-> e, missing |-> miss, cfg |-> NoConfig]

\* The names load_config reports as missing, in the order it appends them.
MissingSettingsUnchecked(database_url, table_name) == <<>>
MissingSettings(database_url, table_name) ==
  (IF ~Truthy(database_url) THEN <<"LANDLENS_DATABASE_URL">> ELSE <<>>)
  \o (IF ~Truthy(table_name) THEN <<"LANDLENS_TABLE">> ELSE <<>>)

\* Result: [ok, err, missing, cfg]
load_config(inv) ==
  LET args == inv.args
      env == inv.env
      database_url == Or(args.database_url, env.LANDLENS_DATABASE_URL)
      table_name == Or(args.table, env.LANDLENS_TABLE)
      table_schema == Or(Or(args.schema, env.LANDLENS_TABLE_SCHEMA), None)
      conflict ==
        Or(args.conflict, Getenv(env, "LANDLENS_ON_CONFLICT", Some(<<"update">>)))
      env_thumbnails == parse_bool(env.LANDLENS_CREATE_THUMBNAILS, TRUE)
      thumb ==
        parse_thumbnail_size(Or(args.thumbnail_size, env.LANDLENS_THUMBNAIL_SIZE))
      skip == parse_bool(env.LANDLENS_SKIP_EXISTING_DIRS, FALSE)
                \/ args.skip_existing_dirs
      missing == MissingSettings(database_url, table_name)
  IN IF conflict \notin {Some(<<"update">>), Some(<<"nothing">>)}
     THEN ConfigError("conflict", <<>>)
     ELSE IF ~thumb.ok THEN ConfigError(thumb.err, <<>>)
     ELSE IF missing # <<>> THEN ConfigError("missing_settings", missing)
     ELSE [ok |-> TRUE, err |-> "none", missing |-> <<>>,
           cfg |-> [database_url |-> IF database_url = None THEN <<>> ELSE database_url[1],
                    table_name |-> IF table_name = None THEN <<>> ELSE table_name[1],
                    table_schema |-> table_schema,
                    conflict |-> conflict[1],
                    create_thumbnails |-> env_thumbnails /\ ~args.no_thumbnails,
                    thumbnail_size |-> thumb.size,
                    skip_existing_dirs |-> skip]]

ConfigErrors == {"conflict", "thumbnail_shape", "thumbnail_int", "missing_settings"}

-----------------------------------------------------------------------------
(* The filesystem under the scan root *)

Join(p, name) == p \o <<"/">> \o name

Root == <<"/", "r">>
DirA == Join(Root, <<"a">>)
DirS == Join(DirA, <<"s">>)
DirM == Join(Root, <<"__MACOSX">>)
DirMB == Join(DirM, <<"b">>)
\* /r/l is a symbolic link to /r/a
DirL == Join(Root, <<"l">>)
Missing == <<"/", "nowhere">>

Directories == {Root, DirA, DirS, DirM, DirMB}

IsLink(p) == p = DirL

\* Path.resolve(): symbolic links replaced by their targets.
Resolve(p) ==
  IF StartsWith(p, DirL) THEN DirA \o SubSeq(p, Len(DirL) + 1, Len(p)) ELSE p

\* Path.is_dir()
IsDir(p) == Resolve(p) \in Directories

\* The subdirectory names os.walk lists for a directory (links to
\* directories included), in listing order.
ListDirs(d) ==
  CASE d = Root -> << <<"__MACOSX">>, <<"a">>, <<"l">> >>
    [] d = DirA -> << <<"s">> >>
    [] d = DirM -> << <<"b">> >>
    [] OTHER -> <<>>

\* Every file a tree of this model may hold, in listing order.
Photo1 == [dir |-> DirA, name |-> <<"photo1", ".", "jpg">>]
Photo2 == [dir |-> DirA, name |-> <<"photo2", ".", "png">>]
DSStore == [dir |-> DirMB, name |-> <<".", "DS_Store">>]
Nested == [dir |-> DirS, name |-> <<"P", ".", "JPG">>]
Top == [dir |-> Root, name |-> <<"top", ".", "jpeg">>]
Hidden == [dir |-> DirM, name |-> <<"m", ".", "jpg">>]

CandidateFiles == <<Photo1, Photo2, DSStore, Nested, Top, Hidden>>

PathOf(f) == Join(f.dir, f.name)

\* The file names os.walk lists for directory d of the tree dsk.
ListFiles(dsk, d) ==
  LET Here(f) == f.dir = d /\ PathOf(f) \in DOMAIN dsk
      fs == SelectSeq(CandidateFiles, Here)
  IN [i \in 1..Len(fs) |-> fs[i].name]

-----------------------------------------------------------------------------
(* load_images_filtered: filtered_walk *)

\* The test of the dirnames[:] comprehension: d stays in the walk.
KeepDirNoSkip(current_root, d, skip_set) == d # <<"__MACOSX">>
KeepDir(current_root, d, skip_set) ==
  /\ Resolve(Join(current_root, d)) \notin skip_set
  /\ d # <<"__MACOSX">>

\* The test of the filtered_files comprehension.
KeepFileAny(f) == TRUE
KeepFile(f) == EndsWithAllowed(f)

\* if Path(top).resolve() in skip_set: return
WalkStart(top, skip_set) == IF Resolve(top) \in skip_set THEN <<>> ELSE <<top>>

\* One iteration of the loop over original_walk(top): the triple yielded for
\* current_root, and the directories os.walk goes on to (it reads the pruned
\* dirnames and does not follow links).
WalkYield(dsk, current_root, skip_set) ==
  LET KD(d) == KeepDir(current_root, d, skip_set)
      KF(f) == KeepFile(f)
  IN [root |-> current_root,
      dirnames |-> SelectSeq(ListDirs(current_root), KD),
      files |-> SelectSeq(ListFiles(dsk, current_root), KF)]

WalkDescend(y) ==
  LET NotLink(d) == ~IsLink(Join(y.root, d))
      ds == SelectSeq(y.dirnames, NotLink)
  IN [i \in 1..Len(ds) |-> Join(y.root, ds[i])]

-----------------------------------------------------------------------------
(* load_images_filtered: safe_image_open, safe_get_exif *)

\* original_image_open: raises on an unreadable file.
original_image_open(dsk, path) ==
  IF dsk[path].health = "corrupt"
  THEN [raised |-> TRUE, img |-> None]
  ELSE [raised |-> FALSE, img |-> Some(path)]

safe_image_open_uncaught(dsk, path) ==
  original_image_open(dsk, path) @@ [warned |-> FALSE]
safe_image_open(dsk, path) ==
  LET r == original_image_open(dsk, path)
  IN IF r.raised
     THEN [raised |-> FALSE, img |-> None, warned |-> TRUE]
     ELSE [raised |-> FALSE, img |-> r.img, warned |-> FALSE]

\* original_get_exif: raises on an image without EXIF support; the tags carry
\* the metadata version of the file.
original_get_exif(dsk, img) ==
  IF dsk[img].health = "noexif"
  THEN [raised |-> TRUE, exif |-> None]
  ELSE [raised |-> FALSE, exif |-> Some(dsk[img].ver)]

safe_get_exif(dsk, img) ==
  IF img = None THEN [raised |-> FALSE, exif |-> None]
  ELSE LET r == original_get_exif(dsk, img[1])
       IN IF r.raised THEN [raised |-> FALSE, exif |-> None] ELSE r

-----------------------------------------------------------------------------
(* State *)

VARIABLES
  disk,            \* the tree: file path -> [health, ver]
  keepsNoExif,     \* whether load_images makes a row of an image without tags
  db,              \* schema -> [cols, rows]
  invs,            \* the invocations the operator issues
  runs,            \* import runs started so far
  touches,         \* changes made to files on disk so far
  pc,              \* position of the current run in import_images
  inv,             \* the current run's invocation
  root,            \* import_images: root
  config,          \* import_images: config
  skip_dirs,       \* import_images: skip_dirs
  walkStack,       \* os.walk: directories still to visit
  yielded,         \* the triples filtered_walk has yielded
  imageFiles,      \* load_images: files found and not yet read
  reads,           \* the files read so far: [path, opened, tagged]
  gif,             \* the frame: a sequence of rows
  gifCols,         \* the frame's columns
  dropped,         \* build_geoimageframe: dropped
  warnings,        \* warnings.warn calls of the run
  err,             \* the exception that ended the run
  missing,         \* the names listed by that exception
  ioLog,           \* the I/O operations of the run, in order
  upsertTarget,    \* the table upsert_images wrote to, if it was called
  runDisk,         \* the tree as the current run started
  dbStart,         \* the database as the current run started
  prev             \* the previous run: [valid, inv, disk, db]

vars ==
  <<disk, keepsNoExif, db, invs, runs, touches, pc, inv, root, config, skip_dirs,
    walkStack, yielded, imageFiles, reads, gif, gifCols, dropped, warnings,
    err, missing, ioLog, upsertTarget, runDisk, dbStart, prev>>

envVars == <<keepsNoExif, invs>>
runLocals ==
  <<root, config, skip_dirs, walkStack, yielded, imageFiles, reads, gif, gifCols,
    dropped, warnings, err, missing, upsertTarget>>
history == <<runs, touches, inv, runDisk, dbStart, prev>>

-----------------------------------------------------------------------------
(* Local.load_images (landlensdb) as this program drives it *)

\* Index of the last "/" of s, 0 if there is none.
RECURSIVE LastSlash(_, _)
LastSlash(s, i) == IF i = 0 \/ s[i] = "/" THEN i ELSE LastSlash(s, i - 1)

BaseName(s) == SubSeq(s, LastSlash(s, Len(s)) + 1, Len(s))

\* The columns of the frame the extractor emits, in its order.
GifColumns == <<"name", "image_url", "camera_make", "geometry">>

\* The row of one image; geometry and camera_make are derived from the tags
\* (0 stands for NULL).  (variant: a column stamped with the number of the run)
ImageRowStamped(path, exif) ==
  [name |-> BaseName(path), image_url |-> path,
   camera_make |-> runs,
   geometry |-> IF exif = None THEN 0 ELSE exif[1]]
ImageRow(path, exif) ==
  [name |-> BaseName(path), image_url |-> path,
   camera_make |-> IF exif = None THEN 0 ELSE exif[1],
   geometry |-> IF exif = None THEN 0 ELSE exif[1]]

\* Whether load_images makes a row of an image: never of one that did not
\* open; of one without tags only if the library keeps such images.
MakesRow(img, exif, keeps) == img # None /\ (exif # None \/ keeps)

-----------------------------------------------------------------------------
(* build_geoimageframe *)

UrlIsJpeg(row) == EndsWithAllowed(row.image_url)

\* Result: [ok, filtered, dropped]
build_geoimageframe(frame) ==
  LET filtered == SelectSeq(frame, UrlIsJpeg)
  IN [ok |-> filtered # <<>>, filtered |-> filtered,
      dropped |-> Len(frame) - Len(filtered)]

-----------------------------------------------------------------------------
(* The database: one table named by the configuration in each of two      *)
(* schemas; an unqualified table name resolves through the search path.   *)

SearchPathSchema == <<"public">>
Schemas == {<<"public">>, <<"archive">>}

\* The table a (schema, table) pair names.
TableRef(schema) == IF schema = None THEN SearchPathSchema ELSE schema[1]

NullOf(c) == IF c \in {"name", "image_url"} THEN <<>> ELSE 0

\* regexp_replace(image_url, '/[^/]+$', '')
RegexpDir(url) ==
  LET i == LastSlash(url, Len(url))
  IN IF i = 0 \/ i = Len(url) THEN url ELSE SubSeq(url, 1, i - 1)

fetch_existing_dirs(tbl, top) ==
  LET root_str == Resolve(top)
      matching == {u \in DOMAIN tbl.rows : StartsWith(u, root_str)}
  IN {Resolve(RegexpDir(u)) : u \in {x \in matching : RegexpDir(x) # <<>>}}

-----------------------------------------------------------------------------
(* align_columns_to_table *)

RequiredColumns == {"image_url", "name", "geometry"}
\* sorted(...) over column names
SortedColumns == <<"camera_make", "geometry", "image_url", "name">>

\* Result: [ok, missing_required, present_cols, dropped_cols]
align_in_table_order(table_cols_list, columns) ==
  LET table_cols == Range(table_cols_list)
      missing_required == RequiredColumns \ table_cols
      Miss(c) == c \in missing_required
      Present(c) == c \in Range(columns)
      Absent(c) == c \notin table_cols
  IN [ok |-> missing_required = {},
      missing_required |-> SelectSeq(SortedColumns, Miss),
      present_cols |-> SelectSeq(table_cols_list, Present),
      dropped_cols |-> SelectSeq(columns, Absent)]
align_unchecked(table_cols_list, columns) ==
  LET table_cols == Range(table_cols_list)
      Present(c) == c \in table_cols
      Absent(c) == c \notin table_cols
  IN [ok |-> TRUE,
      missing_required |-> <<>>,
      present_cols |-> SelectSeq(columns, Present),
      dropped_cols |-> SelectSeq(columns, Absent)]
align_columns_to_table(table_cols_list, columns) ==
  LET table_cols == Range(table_cols_list)
      missing_required == RequiredColumns \ table_cols
      Miss(c) == c \in missing_required
      Present(c) == c \in table_cols
      Absent(c) == c \notin table_cols
  IN [ok |-> missing_required = {},
      missing_required |-> SelectSeq(SortedColumns, Miss),
      present_cols |-> SelectSeq(columns, Present),
      dropped_cols |-> SelectSeq(columns, Absent)]

Project(row, cols) == [c \in Range(cols) |-> row[c]]

-----------------------------------------------------------------------------
(* Postgres.upsert_images (landlensdb) as this program calls it *)

\* The conflict policy and the schema import_images hands to upsert_images
\* (it hands over the table name alone, so no schema).
UpsertConflictAlwaysUpdate(cfg) == <<"update">>
UpsertConflict(cfg) == cfg.conflict
UpsertSchema(cfg) == None

\* One row written into rows (url -> stored row) of a table with columns
\* tcols, keyed by image_url.
UpsertRow(rows, tcols, r, cols, conflict) ==
  LET u == r.image_url
      sent == Range(cols)
      stored ==
        IF u \in DOMAIN rows
        THEN IF conflict = <<"update">>
             THEN [c \in Range(tcols) |-> IF c \in sent THEN r[c] ELSE rows[u][c]]
             ELSE rows[u]
        ELSE [c \in Range(tcols) |-> IF c \in sent THEN r[c] ELSE NullOf(c)]
  IN [x \in DOMAIN rows \cup {u} |-> IF x = u THEN stored ELSE rows[x]]

RECURSIVE UpsertRows(_, _, _, _, _)
UpsertRows(rows, tcols, frame, cols, conflict) ==
  IF frame = <<>> THEN rows
  ELSE UpsertRows(UpsertRow(rows, tcols, Head(frame), cols, conflict),
                  tcols, Tail(frame), cols, conflict)

\* Result: [ok, rows]; the statement fails as a whole if the table lacks a
\* column that is sent.
upsert_images(tbl, frame, cols, conflict) ==
  IF Range(cols) \subseteq Range(tbl.cols)
  THEN [ok |-> TRUE, rows |-> UpsertRows(tbl.rows, tbl.cols, frame, cols, conflict)]
  ELSE [ok |-> FALSE, rows |-> tbl.rows]

-----------------------------------------------------------------------------
(* Initial states *)

Invocations ==
  {BaseInvocation,
   [BaseInvocation EXCEPT !.args.conflict = Some(<<"nothing">>)],
   [BaseInvocation EXCEPT !.args.skip_existing_dirs = TRUE],
   [BaseInvocation EXCEPT !.env.LANDLENS_SKIP_EXISTING_DIRS = Some(<<" ", "YES", " ">>),
                          !.env.LANDLENS_ON_CONFLICT = Some(<<"nothing">>)],
   [BaseInvocation EXCEPT !.env.LANDLENS_TABLE_SCHEMA = Some(<<"archive">>)],
   [BaseInvocation EXCEPT !.args.schema = Some(<<"archive">>),
                          !.args.skip_existing_dirs = TRUE,
                          !.args.thumbnail_size = Some(<<"512", "x", "512">>)],
   [BaseInvocation EXCEPT !.args.schema = Some(<<"public">>),
                          !.env.LANDLENS_THUMBNAIL_SIZE = Some(<<"12", "X", "34">>)],
   [BaseInvocation EXCEPT !.env.LANDLENS_ON_CONFLICT = Some(<<"replace">>)],
   [BaseInvocation EXCEPT !.args.thumbnail_size = Some(<<"bad">>)],
   [BaseInvocation EXCEPT !.env.LANDLENS_THUMBNAIL_SIZE = Some(<<"a", "x", "b">>)],
   [BaseInvocation EXCEPT !.env.LANDLENS_DATABASE_URL = None,
                          !.env.LANDLENS_TABLE = Some(<<>>)],
   [BaseInvocation EXCEPT !.directory = Missing]}

Healths == {"ok", "corrupt", "noexif"}

\* A tree holding the files fs, Photo1 (if there) with health h.
Tree(fs, h) ==
  [p \in {PathOf(f) : f \in fs} |->
     [health |-> IF p = PathOf(Photo1) THEN h ELSE "ok", ver |-> 1]]

FileSets ==
  {{Photo1, Photo2, DSStore},
   {Photo1, Nested, Top, Hidden},
   {Photo2, DSStore},
   {Photo1, Photo2, Nested}}

Trees == {Tree(fs, h) : fs \in FileSets, h \in Healths}

FullCols == <<"image_url", "name", "geometry", "camera_make">>
BaseCols == <<"image_url", "geometry", "name">>
NoGeomCols == <<"image_url", "name", "camera_make">>

\* A row stored by an earlier import, its derived columns NULL.
StoredRow(cols, url) ==
  [c \in Range(cols) |->
     IF c = "image_url" THEN url ELSE IF c = "name" THEN BaseName(url) ELSE 0]

Table(cols, urls) == [cols |-> cols, rows |-> [u \in urls |-> StoredRow(cols, u)]]

\* The image_urls already stored when the behaviour starts.
Seeds ==
  {{}, {PathOf(Photo1)}, {Join(DirL, Photo1.name)}, {PathOf(Top)}}

ColumnLayouts ==
  {<<FullCols, FullCols>>, <<BaseCols, FullCols>>,
   <<NoGeomCols, BaseCols>>, <<FullCols, NoGeomCols>>}

Databases ==
  {[s \in Schemas |->
      IF s = <<"public">> THEN Table(l[1], seed) ELSE Table(l[2], seed)]
     : l \in ColumnLayouts, seed \in Seeds}

InitRun ==
  /\ runs = 0
  /\ touches = 0
  /\ pc = "idle"
  /\ inv = BaseInvocation
  /\ root = <<>>
  /\ config = NoConfig
  /\ skip_dirs = {}
  /\ walkStack = <<>>
  /\ yielded = <<>>
  /\ imageFiles = <<>>
  /\ reads = <<>>
  /\ gif = <<>>
  /\ gifCols = <<>>
  /\ dropped = 0
  /\ warnings = <<>>
  /\ err = "none"
  /\ missing = <<>>
  /\ ioLog = <<>>
  /\ upsertTarget = None
  /\ runDisk = disk
  /\ dbStart = db
  /\ prev = [valid |-> FALSE, inv |-> BaseInvocation, disk |-> disk, db |-> db]

Init ==
  /\ disk \in Trees
  /\ keepsNoExif \in BOOLEAN
  /\ db \in Databases
  /\ invs = Invocations
  /\ InitRun

\* Scanning: every tree, the tables complete, runs with and without the
\* skipping of directories already stored.
ScanInvocations ==
  {BaseInvocation,
   [BaseInvocation EXCEPT !.args.skip_existing_dirs = TRUE],
   [BaseInvocation EXCEPT !.args.schema = Some(<<"archive">>),
                          !.args.skip_existing_dirs = TRUE,
                          !.args.thumbnail_size = Some(<<"512", "x", "512">>)]}

InitScan ==
  /\ disk \in Trees
  /\ keepsNoExif \in BOOLEAN
  /\ db \in {d \in Databases : d[<<"public">>].cols = FullCols
                                /\ d[<<"archive">>].cols = FullCols}
  /\ invs = ScanInvocations
  /\ InitRun

\* Configuration: every invocation, one tree and one database.
InitConfig ==
  /\ disk = Tree({Photo1, Photo2, DSStore}, "ok")
  /\ keepsNoExif = TRUE
  /\ db \in {d \in Databases : d[<<"public">>].cols = FullCols
                                /\ d[<<"archive">>].cols = FullCols
                                /\ DOMAIN d[<<"public">>].rows \subseteq {PathOf(Photo1)}}
  /\ invs = Invocations
  /\ InitRun

\* Storing: every column layout of the two tables, with and without a row
\* stored before, runs under both conflict policies and both schemas.
StoreInvocations ==
  {BaseInvocation,
   [BaseInvocation EXCEPT !.args.conflict = Some(<<"nothing">>)],
   [BaseInvocation EXCEPT !.env.LANDLENS_TABLE_SCHEMA = Some(<<"archive">>)],
   [BaseInvocation EXCEPT !.env.LANDLENS_SKIP_EXISTING_DIRS = Some(<<" ", "YES", " ">>),
                          !.env.LANDLENS_ON_CONFLICT = Some(<<"nothing">>)]}

InitStore ==
  /\ disk \in {Tree({Photo1, Photo2, DSStore}, "ok"),
               Tree({Photo1, Nested, Top, Hidden}, "ok"),
               Tree({Photo1, Photo2, Nested}, "noexif")}
  /\ keepsNoExif = TRUE
  /\ db \in {d \in Databases : DOMAIN d[<<"public">>].rows \subseteq {PathOf(Photo1)}}
  /\ invs = StoreInvocations
  /\ InitRun

-----------------------------------------------------------------------------
(* import_images, step by step *)

Ended == pc \in {"idle", "done", "failed"}

Fail(e, miss) ==
  /\ pc' = "failed"
  /\ err' = e
  /\ missing' = miss

\* main(): a run starts with the parsed arguments.
StartRun(i) ==
  /\ Ended
  /\ runs < MaxRuns
  /\ i \in invs
  /\ runs' = runs + 1
  /\ inv' = i
  /\ UNCHANGED touches
  /\ prev' = IF runs = 0 THEN prev
             ELSE [valid |-> TRUE, inv |-> inv, disk |-> runDisk, db |-> db]
  /\ runDisk' = disk
  /\ dbStart' = db
  /\ pc' = "root"
  /\ root' = <<>>
  /\ config' = NoConfig
  /\ skip_dirs' = {}
  /\ walkStack' = <<>>
  /\ yielded' = <<>>
  /\ imageFiles' = <<>>
  /\ reads' = <<>>
  /\ gif' = <<>>
  /\ gifCols' = <<>>
  /\ dropped' = 0
  /\ warnings' = <<>>
  /\ err' = "none"
  /\ missing' = <<>>
  /\ ioLog' = <<>>
  /\ upsertTarget' = None
  /\ UNCHANGED <<disk, db, envVars>>

\* root = Path(args.directory).expanduser().resolve(); if not root.is_dir(): raise
CheckRoot ==
  /\ pc = "root"
  /\ root' = Resolve(inv.directory)
  /\ ioLog' = Append(ioLog, "root_is_dir")
  /\ IF IsDir(Resolve(inv.directory))
     THEN pc' = "config" /\ UNCHANGED <<err, missing>>
     ELSE Fail("directory_not_found", <<>>)
  /\ UNCHANGED <<disk, db, envVars, history, config, skip_dirs, walkStack,
                 yielded, imageFiles, reads, gif, gifCols, dropped, warnings,
                 upsertTarget>>

\* config = load_config(args)
LoadConfig ==
  /\ pc = "config"
  /\ ioLog' = Append(ioLog, "load_dotenv")
  /\ LET r == load_config(inv)
     IN IF r.ok
        THEN pc' = "connect" /\ config' = r.cfg /\ UNCHANGED <<err, missing>>
        ELSE Fail(r.err, r.missing) /\ UNCHANGED config
  /\ UNCHANGED <<disk, db, envVars, history, root, skip_dirs, walkStack,
                 yielded, imageFiles, reads, gif, gifCols, dropped, warnings,
                 upsertTarget>>

\* db = Postgres(config["database_url"])
Connect ==
  /\ pc = "connect"
  /\ ioLog' = Append(ioLog, "db_engine")
  /\ pc' = IF config.skip_existing_dirs THEN "fetch" ELSE "scan"
  /\ UNCHANGED <<disk, db, envVars, history, root, config, skip_dirs,
                 walkStack, yielded, imageFiles, reads, gif, gifCols, dropped,
                 warnings, err, missing, upsertTarget>>

\* skip_dirs = fetch_existing_dirs(db, table, root, schema)
FetchExistingDirs ==
  /\ pc = "fetch"
  /\ ioLog' = Append(ioLog, "db_query")
  /\ skip_dirs' = fetch_existing_dirs(db[TableRef(config.table_schema)], root)
  /\ pc' = "scan"
  /\ UNCHANGED <<disk, db, envVars, history, root, config, walkStack, yielded,
                 imageFiles, reads, gif, gifCols, dropped, warnings, err, missing,
                 upsertTarget>>

\* build_geoimageframe -> load_images_filtered -> load_images: os.walk(root)
BeginWalk ==
  /\ pc = "scan"
  /\ ioLog' = Append(ioLog, "walk")
  /\ walkStack' = WalkStart(root, skip_dirs)
  /\ pc' = IF WalkStart(root, skip_dirs) = <<>> THEN "load" ELSE "walk"
  /\ UNCHANGED <<disk, db, envVars, history, root, config, skip_dirs, yielded,
                 imageFiles, reads, gif, gifCols, dropped, warnings, err, missing,
                 upsertTarget>>

\* One triple of filtered_walk, consumed by load_images.
WalkStep ==
  /\ pc = "walk"
  /\ walkStack # <<>>
  /\ LET y == WalkYield(disk, Head(walkStack), skip_dirs)
         rest == WalkDescend(y) \o Tail(walkStack)
     IN /\ yielded' = Append(yielded, y)
        /\ imageFiles' = imageFiles \o [i \in 1..Len(y.files) |-> Join(y.root, y.files[i])]
        /\ walkStack' = rest
        /\ pc' = IF rest = <<>> THEN "load" ELSE "walk"
  /\ UNCHANGED <<disk, db, envVars, history, root, config, skip_dirs, reads, gif,
                 gifCols, dropped, warnings, err, missing, ioLog, upsertTarget>>

\* load_images reads one file: Image.open, then get_exif_data (both patched).
LoadImage ==
  /\ pc = "load"
  /\ imageFiles # <<>>
  /\ LET path == Head(imageFiles)
         o == safe_image_open(disk, path)
         e == IF o.raised THEN [raised |-> FALSE, exif |-> None]
              ELSE safe_get_exif(disk, o.img)
     IN /\ imageFiles' = Tail(imageFiles)
        /\ reads' = Append(reads, [path |-> path, opened |-> o.img # None,
                                   tagged |-> e.exif # None])
        /\ warnings' = IF o.warned
                       THEN Append(warnings, [kind |-> "unreadable", what |-> path])
                       ELSE warnings
        /\ IF o.raised THEN Fail("image_open_raised", <<>>) /\ UNCHANGED gif
           ELSE IF e.raised THEN Fail("get_exif_raised", <<>>) /\ UNCHANGED gif
           ELSE /\ UNCHANGED <<pc, err, missing>>
                /\ gif' = IF MakesRow(o.img, e.exif, keepsNoExif)
                          THEN Append(gif, ImageRow(path, e.exif))
                          ELSE gif
  /\ UNCHANGED <<disk, db, envVars, history, root, config, skip_dirs, walkStack,
                 yielded, gifCols, dropped, ioLog, upsertTarget>>

\* build_geoimageframe after load_images_filtered returned.
BuildFrame ==
  /\ pc = "load"
  /\ imageFiles = <<>>
  /\ LET r == build_geoimageframe(gif)
     IN /\ dropped' = r.dropped
        /\ gif' = r.filtered
        /\ gifCols' = GifColumns
        /\ IF r.ok THEN pc' = "align" /\ UNCHANGED <<err, missing>>
           ELSE Fail("no_jpeg_images", <<>>)
  /\ UNCHANGED <<disk, db, envVars, history, root, config, skip_dirs, walkStack,
                 yielded, imageFiles, reads, warnings, ioLog, upsertTarget>>

\* gif = align_columns_to_table(db, table, schema, gif)
AlignColumns ==
  /\ pc = "align"
  /\ ioLog' = Append(ioLog, "db_inspect")
  /\ LET a == align_columns_to_table(db[TableRef(config.table_schema)].cols, gifCols)
     IN IF a.ok
        THEN /\ gif' = [i \in 1..Len(gif) |-> Project(gif[i], a.present_cols)]
             /\ gifCols' = a.present_cols
             /\ warnings' = IF a.dropped_cols # <<>>
                            THEN Append(warnings, [kind |-> "dropping_columns",
                                                   what |-> a.dropped_cols])
                            ELSE warnings
             /\ pc' = "upsert"
             /\ UNCHANGED <<err, missing>>
        ELSE /\ Fail("missing_required_columns", a.missing_required)
             /\ UNCHANGED <<gif, gifCols, warnings>>
  /\ UNCHANGED <<disk, db, envVars, history, root, config, skip_dirs, walkStack,
                 yielded, imageFiles, reads, dropped, upsertTarget>>

\* db.upsert_images(gif, config["table_name"], conflict=config["conflict"])
Upsert ==
  /\ pc = "upsert"
  /\ ioLog' = Append(ioLog, "upsert")
  /\ LET target == TableRef(UpsertSchema(config))
         r == upsert_images(db[target], gif, gifCols, UpsertConflict(config))
     IN /\ upsertTarget' = Some(target)
        /\ db' = [db EXCEPT ![target].rows = r.rows]
        /\ IF r.ok THEN pc' = "done" /\ UNCHANGED <<err, missing>>
           ELSE Fail("upsert_failed", <<>>)
  /\ UNCHANGED <<disk, envVars, history, root, config, skip_dirs, walkStack,
                 yielded, imageFiles, reads, gif, gifCols, dropped, warnings>>

\* Between runs the metadata of a file may change on disk.
TouchFile(p) ==
  /\ pc \in {"done", "failed"}
  /\ runs < MaxRuns
  /\ p \in DOMAIN disk
  /\ touches < MaxTouches
  /\ touches' = touches + 1
  /\ disk' = [disk EXCEPT ![p].ver = @ + 1]
  /\ UNCHANGED <<db, envVars, runs, inv, runDisk, dbStart, prev, pc, runLocals, ioLog>>

Next ==
  \/ \E i \in Invocations : StartRun(i)
  \/ CheckRoot
  \/ LoadConfig
  \/ Connect
  \/ FetchExistingDirs
  \/ BeginWalk
  \/ WalkStep
  \/ LoadImage
  \/ BuildFrame
  \/ AlignColumns
  \/ Upsert
  \/ \E f \in Range(CandidateFiles) : TouchFile(PathOf(f))

Spec == Init /\ [][Next]_vars
SpecScan == InitScan /\ [][Next]_vars
SpecConfig == InitConfig /\ [][Next]_vars
SpecStore == InitStore /\ [][Next]_vars

-----------------------------------------------------------------------------
(* Properties *)

\* path lies in directory d or in a directory beneath it
Beneath(d, path) == StartsWith(path, d \o <<"/">>)

\* build_geoimageframe has returned or raised its own error
FrameBuilt == gifCols # <<>>

\* the name ends, whatever its case, in .jpg or .jpeg
JpegNamed(path) ==
  /\ Len(path) >= 2
  /\ path[Len(path) - 1] = "."
  /\ path[Len(path)] \in {"jpg", "jpeg", "JPG", "JPEG", "Jpg", "Jpeg"}

FrameUrls == {gif[i].image_url : i \in 1..Len(gif)}

\* C1: no file in a directory of the skip-set, or in a directory beneath one,
\* is found, read or made a row of the frame, and no such directory is
\* visited by the walk; if the root is in the skip-set the walk yields nothing.
C1_SkippedDirectoriesContributeNothing ==
  \A d \in skip_dirs :
    /\ \A u \in FrameUrls : ~Beneath(d, u)
    /\ \A k \in 1..Len(imageFiles) : ~Beneath(d, imageFiles[k])
    /\ \A k \in 1..Len(reads) : ~Beneath(d, reads[k].path)
    /\ \A j \in 1..Len(yielded) :
         yielded[j].root # d /\ ~Beneath(d, yielded[j].root)
    /\ (d = root => yielded = <<>>)

\* C1 witness: a run that skipped /r/a ended with a frame although the tree
\* holds a file two levels below the skipped directory.
C1_Witness ==
  /\ pc = "done"
  /\ DirA \in skip_dirs
  /\ PathOf(Nested) \in DOMAIN disk
  /\ PathOf(Photo1) \in DOMAIN disk
  /\ Len(gif) = 1

\* C2: once build_geoimageframe is through, no file of the tree whose name
\* does not end in .jpg or .jpeg (in any case) has a row in the frame.
C2_NoRowForOtherExtensions ==
  FrameBuilt =>
    \A p \in DOMAIN disk : ~JpegNamed(p) => p \notin FrameUrls

\* C2 witness: a frame was built from a tree holding a .png beside a JPEG.
C2_Witness ==
  /\ FrameBuilt
  /\ PathOf(Photo2) \in DOMAIN disk
  /\ PathOf(Photo1) \in FrameUrls

ReadFailed(r) == ~r.opened \/ ~r.tagged
ReadSucceeded(r) == r.opened /\ r.tagged
StageRaised == err \in {"image_open_raised", "get_exif_raised"}
Warned(path) ==
  \E k \in 1..Len(warnings) :
    warnings[k].kind = "unreadable" /\ warnings[k].what = path

\* What holds of a run in which a file failed to open or to yield tags,
\* whether or not the run then completes.
FailuresAreIsolated ==
  /\ ~StageRaised
  /\ \A k \in 1..Len(reads) :
       /\ ~reads[k].opened => Warned(reads[k].path) /\ reads[k].path \notin FrameUrls
       /\ ReadSucceeded(reads[k]) => reads[k].path \in FrameUrls

\* C3 as stated: if a file failed to open or to yield tags, the scan still
\* completes (it is not ended by an error), the failure is turned into a
\* None result with a warning or into empty tags, and every file read
\* successfully is a row of the frame.
C3_AsStated ==
  (\E k \in 1..Len(reads) : ReadFailed(reads[k])) =>
    /\ FailuresAreIsolated
    /\ err # "no_jpeg_images"

\* C3 amended: as stated, except that the scan is sure to complete only if at
\* least one file was read successfully; when the failures leave the frame
\* empty, build_geoimageframe raises "No JPEG images found".
C3_FailuresIsolatedAndOthersKept ==
  (\E k \in 1..Len(reads) : ReadFailed(reads[k])) =>
    /\ FailuresAreIsolated
    /\ (\E k \in 1..Len(reads) : ReadSucceeded(reads[k])) => err # "no_jpeg_images"
    /\ (FrameBuilt /\ gif = <<>>) => pc = "failed" /\ err = "no_jpeg_images"

\* C3 witness: a run completed in which one file failed and another is a row.
C3_Witness ==
  /\ pc = "done"
  /\ \E k \in 1..Len(reads) : ReadFailed(reads[k]) /\ reads[k].path \notin FrameUrls
  /\ \E k \in 1..Len(reads) : ReadSucceeded(reads[k]) /\ reads[k].path \in FrameUrls

\* The tree of the scenario: a/photo1.jpg, a/photo2.png, __MACOSX/b/.DS_Store,
\* the JPEG readable, and a skip-set that leaves a/ in the walk.
MacScenario ==
  /\ DOMAIN disk = {PathOf(Photo1), PathOf(Photo2), PathOf(DSStore)}
  /\ disk[PathOf(Photo1)].health = "ok"
  /\ skip_dirs \cap {Root, DirA} = {}
  /\ FrameBuilt

OneRowPhoto1 ==
  /\ Len(gif) = 1
  /\ gif[1].image_url = PathOf(Photo1)
  /\ \A j \in 1..Len(yielded) : yielded[j].root \notin {DirM, DirMB}

\* C7 as stated: in the scenario the frame has exactly the row of
\* a/photo1.jpg and the dropped count is 1, the .png.
C7_AsStated == MacScenario => OneRowPhoto1 /\ dropped = 1

\* C7 amended: in the scenario the frame has exactly the row of a/photo1.jpg,
\* __MACOSX is never visited, and the dropped count is 0: the .png is removed
\* by the walk's file filter before the frame is assembled, and dropped counts
\* only the rows the filter on image_url removes afterwards.
C7_OneRowNothingDropped == MacScenario => OneRowPhoto1 /\ dropped = 0

\* C7 witness: the scenario's run has built its frame.
C7_Witness == MacScenario /\ pc = "align" /\ Len(reads) = 1 /\ Len(yielded) = 3

\* The settings of an invocation, read as load_config reads them.
EffectiveConflict(i) ==
  Or(i.args.conflict,
     IF i.env.LANDLENS_ON_CONFLICT = None THEN Some(<<"update">>)
     ELSE i.env.LANDLENS_ON_CONFLICT)

BadSettings(i) ==
  \/ EffectiveConflict(i) \notin {Some(<<"update">>), Some(<<"nothing">>)}
  \/ ~parse_thumbnail_size(Or(i.args.thumbnail_size, i.env.LANDLENS_THUMBNAIL_SIZE)).ok
  \/ ~Truthy(Or(i.args.database_url, i.env.LANDLENS_DATABASE_URL))
  \/ ~Truthy(Or(i.args.table, i.env.LANDLENS_TABLE))

ConfigFailed == pc = "failed" /\ err \in ConfigErrors

\* C8 as stated: when a run fails with a configuration error, no check of the
\* scan root, no database connection or query, no traversal and no write has
\* taken place.
C8_AsStated ==
  ConfigFailed =>
    Range(ioLog) \cap {"root_is_dir", "db_engine", "db_query", "walk",
                       "db_inspect", "upsert"} = {}

\* C8 amended: a configuration error is fatal and is raised after the check
\* that the scan root is a directory (and the reading of .env) but before any
\* database connection or query, any traversal and any write; every
\* invocation with a missing or invalid setting whose root is a directory
\* ends with it.
C8_ConfigErrorBeforeDatabaseAndScan ==
  /\ err \in ConfigErrors =>
       pc = "failed" /\ ioLog = <<"root_is_dir", "load_dotenv">>
  /\ (BadSettings(inv) /\ pc \notin {"idle", "root", "config"}) =>
       /\ pc = "failed"
       /\ err \in ConfigErrors \cup {"directory_not_found"}
       /\ db = dbStart

\* C8 witness: a run failed for its two missing settings.
C8_Witness ==
  /\ ConfigFailed
  /\ err = "missing_settings"
  /\ missing = <<"LANDLENS_DATABASE_URL", "LANDLENS_TABLE">>

\* The run's two disks and invocation are those of the run before it.
RerunUnchanged ==
  /\ prev.valid
  /\ prev.inv = inv
  /\ prev.disk = runDisk

\* C4: a run with conflict=update that repeats the run before it on an
\* unchanged tree leaves every table as that run left it: the same rows with
\* the same values.
C4_UpdateRerunIdempotent ==
  (RerunUnchanged /\ EffectiveConflict(inv) = Some(<<"update">>)) => db = prev.db

\* C4 witness: such a second run has written its rows.
C4_Witness ==
  /\ RerunUnchanged
  /\ EffectiveConflict(inv) = Some(<<"update">>)
  /\ pc = "done"
  /\ Len(gif) >= 2
  /\ \E s \in Schemas : \A u \in FrameUrls : u \in DOMAIN db[s].rows

\* C5: a run with conflict=nothing leaves every row that was stored before
\* the run exactly as it was, in every table.
C5_NothingKeepsExistingRows ==
  config.conflict = <<"nothing">> =>
    \A s \in Schemas : \A u \in DOMAIN dbStart[s].rows :
      u \in DOMAIN db[s].rows /\ db[s].rows[u] = dbStart[s].rows[u]

\* C5 witness: a conflict=nothing run wrote a table that already held a row
\* for one of its images with other values than the file now gives, and
\* inserted a new row.
C5_Witness ==
  /\ pc = "done"
  /\ config.conflict = <<"nothing">>
  /\ \E s \in Schemas :
       /\ upsertTarget = Some(s)
       /\ "geometry" \in Range(gifCols)
       /\ \E i \in 1..Len(gif) :
            /\ gif[i].image_url \in DOMAIN dbStart[s].rows
            /\ gif[i].geometry # dbStart[s].rows[gif[i].image_url].geometry
       /\ DOMAIN db[s].rows # DOMAIN dbStart[s].rows

\* The columns of the table named by the configured schema and table name.
DestinationColumns == Range(db[TableRef(config.table_schema)].cols)

Configured == pc \notin {"idle", "root", "config"}

\* C6: if the destination table has image_url and name but not geometry, the
\* run never completes and never calls upsert_images, and once the aligner has
\* read the table the run has failed naming exactly geometry; whenever the run
\* fails for missing required columns, it names image_url, name and geometry
\* less the destination's columns, and nothing was written.
C6_MissingGeometryFailsBeforeWrite ==
  /\ (/\ Configured
      /\ {"image_url", "name"} \subseteq DestinationColumns
      /\ "geometry" \notin DestinationColumns) =>
       /\ "upsert" \notin Range(ioLog)
       /\ pc # "done"
       /\ "db_inspect" \in Range(ioLog) =>
            /\ pc = "failed"
            /\ err = "missing_required_columns"
            /\ missing = <<"geometry">>
  /\ err = "missing_required_columns" =>
       /\ Range(missing) = {"image_url", "name", "geometry"} \ DestinationColumns
       /\ "upsert" \notin Range(ioLog)
       /\ db = dbStart

\* C6 witness: a run failed at the aligner for the missing geometry column.
C6_Witness ==
  /\ pc = "failed"
  /\ err = "missing_required_columns"
  /\ missing = <<"geometry">>
  /\ "walk" \in Range(ioLog)

InDestination(c) == c \in DestinationColumns
NotInDestination(c) == c \notin DestinationColumns
ColumnWarnings ==
  SelectSeq(warnings, LAMBDA w : w.kind = "dropping_columns")

\* C9: when the destination table has the three required columns, the frame
\* the aligner returns has exactly the frame's columns that the destination
\* has, in the frame's order; the others are named in one warning; no error
\* is raised and the run goes on to upsert_images.
C9_AlignedToSharedColumnsInFrameOrder ==
  (/\ "db_inspect" \in Range(ioLog)
   /\ {"image_url", "name", "geometry"} \subseteq DestinationColumns) =>
    /\ gifCols = SelectSeq(GifColumns, InDestination)
    /\ \A i \in 1..Len(gif) : DOMAIN gif[i] = Range(gifCols)
    /\ ColumnWarnings =
         IF SelectSeq(GifColumns, NotInDestination) = <<>> THEN <<>>
         ELSE <<[kind |-> "dropping_columns",
                 what |-> SelectSeq(GifColumns, NotInDestination)]>>
    /\ pc \in {"upsert", "done"} \/ (pc = "failed" /\ err = "upsert_failed")

\* C9 witness: a run into a table of only the three required columns dropped
\* camera_make with a warning and completed its write.
C9_Witness ==
  /\ pc = "done"
  /\ DestinationColumns = {"image_url", "name", "geometry"}
  /\ gifCols = <<"name", "image_url", "geometry">>
  /\ Len(ColumnWarnings) = 1

\* C10: the table that receives the upsert is the table named by the
\* configured schema and table name, the one the deduplicator queried and the
\* aligner read.
C10_UpsertIntoConfiguredSchema ==
  upsertTarget # None => upsertTarget[1] = TableRef(config.table_schema)

====
